---- MODULE Spec2Model ----
(***************************************************************************)
(* Model of the two Slither report tools of scripts/slither:               *)
(*   slither_fail_on_high.py  - the CI gate                                *)
(*   aggregate_slither.py     - the markdown summary                       *)
(*                                                                         *)
(* JSON values are tagged records, so that an absent key, a null, an empty *)
(* string and an empty list stay distinct, as they are for Python's        *)
(* `in`, `.get(k, default)` and `or`.  Python strings are sequences of     *)
(* one-character strings, so that strip(), lower(), splitlines(),          *)
(* replace(), substring tests and number formatting are computed.          *)
(***************************************************************************)
EXTENDS Integers, Sequences, FiniteSets, TLC

VARIABLES
    pc,           \* position of the running program
    dirExists,    \* gate: whether reports/json exists
    read,         \* the files of reports/json visited so far, in glob order
    fail,         \* gate: the `fail` flag
    stdout,       \* lines printed so far (warnings, hits, final messages)
    exitCode,     \* gate: process exit status, NoExit while running
    files,        \* summary: list(load_json_files(JSON_DIR))
    fi,           \* summary: index in `files` of the file being summarised
    di,           \* summary: index of the next detector of that file
    total,        \* summary: total
    by_check,     \* summary: Counter, as (key, count) pairs in insertion order
    by_severity,  \* summary: Counter, likewise
    per_file,     \* summary: defaultdict(list), as (key, list) pairs
    table_rows,   \* summary: table_rows
    out_md,       \* summary: the document written to reports/summary.md
    arg,          \* function harness: the argument drawn for the call
    ret           \* function harness: what the call returned

vars == <<pc, dirExists, read, fail, stdout, exitCode, files, fi, di, total,
          by_check, by_severity, per_file, table_rows, out_md, arg, ret>>

gateVars == <<dirExists, fail, exitCode>>
sumVars == <<files, fi, di, total, by_check, by_severity, per_file,
             table_rows, out_md>>
fnVars == <<arg, ret>>

-----------------------------------------------------------------------------
(* Bounds of the explored inputs.                                          *)

MaxFiles == 2       \* report files in reports/json
MaxPrinters == 2    \* entries of results.printers
MaxElements == 2    \* entries of a finding's elements / locations list

-----------------------------------------------------------------------------
(* JSON / Python values.                                                   *)

Absent == [t |-> "absent"]          \* the key is not in the mapping
Null == [t |-> "null"]              \* JSON null, Python None
Str(s) == [t |-> "str", v |-> s]
Num(n) == [t |-> "int", v |-> n]
List(xs) == [t |-> "list", v |-> xs]
Dict(r) == [t |-> "dict", v |-> r]

\* A mapping is a record over its known keys; a key it lacks maps to Absent.
DictEmpty(r) == \A k \in DOMAIN r : r[k] = Absent

\* bool(v)
Truthy(v) ==
    CASE v.t = "str" -> v.v # <<>>
      [] v.t = "int" -> v.v # 0
      [] v.t = "list" -> v.v # <<>>
      [] v.t = "dict" -> ~DictEmpty(v.v)
      [] OTHER -> FALSE

\* m.get(k): None for a missing key
Get(m, k) == IF m[k] = Absent THEN Null ELSE m[k]

\* m.get(k, default)
GetOr(m, k, default) == IF m[k] = Absent THEN default ELSE m[k]

\* k in m
Has(m, k) == m[k] # Absent

\* a or b
Or(a, b) == IF Truthy(a) THEN a ELSE b

-----------------------------------------------------------------------------
(* Python string operations on sequences of characters.                    *)

UpperLetters == <<"A","B","C","D","E","F","G","H","I","J","K","L","M",
                  "N","O","P","Q","R","S","T","U","V","W","X","Y","Z">>
LowerLetters == <<"a","b","c","d","e","f","g","h","i","j","k","l","m",
                  "n","o","p","q","r","s","t","u","v","w","x","y","z">>
Digits == <<"0","1","2","3","4","5","6","7","8","9">>

\* Printable ASCII from code point 32 on, in code point order ("GRAVE" holds
\* the place of code point 96, which a TLA+ string cannot contain).
Ascii == <<" ","!","\"","#","$","%","&","'","(",")","*","+",",","-",".","/",
           "0","1","2","3","4","5","6","7","8","9",":",";","<","=",">","?",
           "@","A","B","C","D","E","F","G","H","I","J","K","L","M","N","O",
           "P","Q","R","S","T","U","V","W","X","Y","Z","[","\\","]","^","_",
           "GRAVE","a","b","c","d","e","f","g","h","i","j","k","l","m","n","o",
           "p","q","r","s","t","u","v","w","x","y","z","{","|","}","~">>

\* ord(c)
Ord(c) ==
    IF c = "\t" THEN 9
    ELSE IF c = "\n" THEN 10
    ELSE 31 + (CHOOSE i \in 1..Len(Ascii) : Ascii[i] = c)

IsSpace(c) == c \in {" ", "\t", "\n"}

SetMin(S) == CHOOSE x \in S : \A y \in S : x <= y
SetMax(S) == CHOOSE x \in S : \A y \in S : y <= x

LowerChar(c) ==
    IF \E i \in 1..Len(UpperLetters) : UpperLetters[i] = c
    THEN LowerLetters[CHOOSE i \in 1..Len(UpperLetters) : UpperLetters[i] = c]
    ELSE c

\* s.lower()
Lower(s) == [i \in 1..Len(s) |-> LowerChar(s[i])]

\* s.strip()
Strip(s) ==
    LET keep == {i \in 1..Len(s) : ~IsSpace(s[i])}
    IN IF keep = {} THEN <<>> ELSE SubSeq(s, SetMin(keep), SetMax(keep))

\* s.splitlines()
RECURSIVE SplitLines(_)
SplitLines(s) ==
    IF s = <<>> THEN <<>>
    ELSE LET br == {i \in 1..Len(s) : s[i] = "\n"}
         IN IF br = {} THEN <<s>>
            ELSE <<SubSeq(s, 1, SetMin(br) - 1)>>
                 \o SplitLines(SubSeq(s, SetMin(br) + 1, Len(s)))

\* tok in s
Contains(tok, s) ==
    \E i \in 0..(Len(s) - Len(tok)) : SubSeq(s, i + 1, i + Len(tok)) = tok

\* s.replace("|", "\\|")
RECURSIVE EscapePipe(_)
EscapePipe(s) ==
    IF s = <<>> THEN <<>>
    ELSE (IF Head(s) = "|" THEN <<"\\", "|">> ELSE <<Head(s)>>)
         \o EscapePipe(Tail(s))

\* str(n) for n >= 0
RECURSIVE IntStr(_)
IntStr(n) ==
    IF n < 10 THEN <<Digits[n + 1]>>
    ELSE IntStr(n \div 10) \o <<Digits[(n % 10) + 1]>>

\* str(v) as an f-string or str() renders a scalar
PyStr(v) ==
    CASE v.t = "str" -> v.v
      [] v.t = "int" -> IntStr(v.v)
      [] v.t = "null" -> <<"N","o","n","e">>

\* sep.join(parts)
RECURSIVE Join(_, _)
Join(sep, parts) ==
    IF parts = <<>> THEN <<>>
    ELSE IF Len(parts) = 1 THEN parts[1]
    ELSE parts[1] \o sep \o Join(sep, Tail(parts))

\* a < b on strings: by code point, a proper prefix first
RECURSIVE StrLess(_, _)
StrLess(a, b) ==
    IF b = <<>> THEN FALSE
    ELSE IF a = <<>> THEN TRUE
    ELSE IF Head(a) # Head(b) THEN Ord(Head(a)) < Ord(Head(b))
    ELSE StrLess(Tail(a), Tail(b))

-----------------------------------------------------------------------------
(* Shapes of the JSON the tools read.                                      *)

NoFinding ==
    [check |-> Absent, name |-> Absent, title |-> Absent, detector |-> Absent,
     severity |-> Absent, impact |-> Absent,
     description |-> Absent, info |-> Absent, message |-> Absent,
     confidence |-> Absent, confidence_level |-> Absent,
     confidenceString |-> Absent,
     elements |-> Absent, locations |-> Absent,
     filename |-> Absent, file |-> Absent, line |-> Absent]

NoElement ==
    [filename |-> Absent, path |-> Absent, source_mapping |-> Absent,
     line |-> Absent, start_line |-> Absent, end_line |-> Absent,
     lines |-> Absent]

NoSourceMapping ==
    [filename |-> Absent, start_line |-> Absent, end_line |-> Absent]

NoResults == [detectors |-> Absent, printers |-> Absent]
NoAdditionalFields == [detectors |-> Absent]
NoPrinter == [additional_fields |-> Absent]
NoDocument == [results |-> Absent, detectors |-> Absent]

\* (x or {}) for a mapping-valued key
OrEmpty(v, empty) == IF Truthy(v) THEN v.v ELSE empty

\* (x or []) for a list-valued key
OrNil(v) == IF Truthy(v) THEN v.v ELSE <<>>

-----------------------------------------------------------------------------
(* aggregate_slither.py: find_detectors                                    *)

\* for p in printers: ... if det2: return det2
RECURSIVE FirstPrinterDetectors(_)
FirstPrinterDetectors(printers) ==
    IF printers = <<>> THEN Null
    ELSE LET af == OrEmpty(Get(Head(printers), "additional_fields"),
                           NoAdditionalFields)
             det2 == Get(af, "detectors")
         IN IF Truthy(det2) THEN det2
            ELSE FirstPrinterDetectors(Tail(printers))

FindDetectorsTopFirst(data) ==
    IF DictEmpty(data) THEN <<>>
    ELSE LET results == OrEmpty(Get(data, "results"), NoResults)
             det == Get(results, "detectors")
             printers == OrNil(Get(results, "printers"))
             top == Get(data, "detectors")
         IN IF Truthy(det) THEN det.v
            ELSE IF Truthy(top) THEN top.v
            ELSE IF Truthy(FirstPrinterDetectors(printers))
                 THEN FirstPrinterDetectors(printers).v
            ELSE <<>>

find_detectors(data) ==
    IF DictEmpty(data) THEN <<>>
    ELSE LET results == OrEmpty(Get(data, "results"), NoResults)
             det == Get(results, "detectors")
             printers == OrNil(Get(results, "printers"))
             top == Get(data, "detectors")
         IN IF Truthy(det) THEN det.v
            ELSE IF Truthy(FirstPrinterDetectors(printers))
                 THEN FirstPrinterDetectors(printers).v
            ELSE IF Truthy(top) THEN top.v
            ELSE <<>>

-----------------------------------------------------------------------------
(* slither_fail_on_high.py: extract_detectors                              *)

\* for pr in printers: dets = af.get("detectors") or dets
RECURSIVE LastPrinterDetectors(_, _)
LastPrinterDetectors(printers, dets) ==
    IF printers = <<>> THEN dets
    ELSE LET af == OrEmpty(Get(Head(printers), "additional_fields"),
                           NoAdditionalFields)
         IN LastPrinterDetectors(Tail(printers),
                                 Or(Get(af, "detectors"), dets))

extract_detectors(d) ==
    LET dets == Or(Or(Get(OrEmpty(Get(d, "results"), NoResults), "detectors"),
                      Get(d, "detectors")),
                   List(<<>>))
        printers == OrNil(Get(OrEmpty(Get(d, "results"), NoResults),
                              "printers"))
    IN IF Truthy(dets) THEN dets.v
       ELSE OrNil(LastPrinterDetectors(printers, dets))

-----------------------------------------------------------------------------
(* aggregate_slither.py: extract_location, normalize_check_name,           *)
(* recommend_for                                                           *)

\* The outcome of a call that raised instead of returning.
Raise == [t |-> "raise"]

EmptyStr == Str(<<>>)
Unknown == Str(<<"u","n","k","n","o","w","n">>)

\* str(x) for x in elem.get("lines")
StrEach(xs) == [i \in 1..Len(xs) |-> PyStr(xs[i])]

\* f"L{a}-L{b}"
LineRange(a, b) == Str(<<"L">> \o PyStr(a) \o <<"-", "L">> \o PyStr(b))

LocationLinesListFirst(elem) ==
    IF Has(elem, "line") THEN Str(<<"L">> \o PyStr(elem.line))
    ELSE IF Has(elem, "lines") /\ elem.lines.t = "list"
         THEN Str(Join(<<",">>, StrEach(elem.lines.v)))
    ELSE IF Has(elem, "start_line") /\ Has(elem, "end_line")
         THEN LineRange(elem.start_line, elem.end_line)
    ELSE LET sm == OrEmpty(Get(elem, "source_mapping"), NoSourceMapping)
         IN IF Has(sm, "start_line") /\ Has(sm, "end_line")
            THEN LineRange(sm.start_line, sm.end_line)
            ELSE EmptyStr

\* The lines string of lines 84-96.
LocationLines(elem) ==
    IF Has(elem, "line") THEN Str(<<"L">> \o PyStr(elem.line))
    ELSE IF Has(elem, "start_line") /\ Has(elem, "end_line")
         THEN LineRange(elem.start_line, elem.end_line)
    ELSE IF Has(elem, "lines") /\ elem.lines.t = "list"
         THEN Str(Join(<<",">>, StrEach(elem.lines.v)))
    ELSE LET sm == OrEmpty(Get(elem, "source_mapping"), NoSourceMapping)
         IN IF Has(sm, "start_line") /\ Has(sm, "end_line")
            THEN LineRange(sm.start_line, sm.end_line)
            ELSE EmptyStr

extract_location(elem) ==
    IF DictEmpty(elem) THEN [t |-> "ok", filename |-> EmptyStr, lines |-> EmptyStr]
    ELSE IF Truthy(Get(elem, "filename"))
         THEN [t |-> "ok", filename |-> elem.filename,
               lines |-> LocationLines(elem)]
    ELSE IF Truthy(Get(elem, "path"))
         THEN [t |-> "ok", filename |-> elem.path,
               lines |-> LocationLines(elem)]
    \* elem.get("source_mapping", {}).get("filename", ""): the default {}
    \* stands in only for a missing key; None has no .get
    ELSE LET sm == GetOr(elem, "source_mapping", Dict(NoSourceMapping))
         IN IF sm.t # "dict" THEN Raise
            ELSE [t |-> "ok", filename |-> GetOr(sm.v, "filename", EmptyStr),
                  lines |-> LocationLines(elem)]

normalize_check_name(name) ==
    IF ~Truthy(name) THEN Unknown ELSE Str(Strip(name.v))

\* RECOMMENDATIONS, in insertion order.  The texts are opaque: only which
\* entry is returned matters, and none of them holds a "|".
RECOMMENDATIONS ==
    << [token |-> <<"a","s","s","e","m","b","l","y">>, rec |-> "assembly"],
       [token |-> <<"b","o","o","l","e","a","n","-","e","q","u","a","l">>,
        rec |-> "boolean-equal"],
       [token |-> <<"n","a","m","i","n","g","-","c","o","n","v","e","n","t",
                    "i","o","n">>, rec |-> "naming-convention"],
       [token |-> <<"u","n","u","s","e","d","-","r","e","t","u","r","n">>,
        rec |-> "unused-return"],
       [token |-> <<"s","o","l","c","-","v","e","r","s","i","o","n">>,
        rec |-> "solc-version"],
       [token |-> <<"p","r","a","g","m","a">>, rec |-> "pragma"],
       [token |-> <<"d","e","a","d","-","c","o","d","e">>, rec |-> "dead-code"],
       [token |-> <<"s","h","a","d","o","w","i","n","g","-","l","o","c","a",
                    "l">>, rec |-> "shadowing-local"],
       [token |-> <<"r","e","e","n","t","r","a","n","c","y","-","e","v","e",
                    "n","t","s">>, rec |-> "reentrancy-events"],
       [token |-> <<"r","e","e","n","t","r","a","n","c","y","-","n","o","-",
                    "e","t","h">>, rec |-> "reentrancy-no-eth"],
       [token |-> <<"t","i","m","e","s","t","a","m","p">>, rec |-> "timestamp"],
       [token |-> <<"u","n","i","n","i","t","i","a","l","i","z","e","d","-",
                    "l","o","c","a","l">>, rec |-> "uninitialized-local"],
       [token |-> <<"u","n","u","s","e","d","-","l","o","c","a","l">>,
        rec |-> "unused-local"],
       [token |-> <<"d","e","f","a","u","l","t">>, rec |-> "default"] >>

RECURSIVE FirstToken(_, _)
FirstToken(table, key) ==
    IF table = <<>> THEN "default"
    ELSE IF Contains(Head(table).token, key) THEN Head(table).rec
    ELSE FirstToken(Tail(table), key)

recommend_for(check) == FirstToken(RECOMMENDATIONS, Lower(check.v))

-----------------------------------------------------------------------------
(* aggregate_slither.py: the body of summarise_and_build_table's loop      *)

\* for e in elements: ... if fname_e: ... break
RECURSIVE ScanElements(_)
ScanElements(es) ==
    IF es = <<>> THEN [t |-> "none"]
    ELSE LET loc == extract_location(Head(es))
         IN IF loc = Raise THEN Raise
            ELSE IF Truthy(loc.filename) THEN loc
            ELSE ScanElements(Tail(es))

\* Lines 130-148: (file_field, lines_field)
PrimaryAlwaysFirst(d) ==
    LET elements == Or(Or(Or(Get(d, "elements"),
                             GetOr(d, "elements", List(<<>>))),
                          Get(d, "locations")),
                       List(<<>>))
    IN IF Truthy(elements) /\ elements.t = "list" /\ Len(elements.v) > 0
       THEN extract_location(elements.v[1])
       ELSE [t |-> "ok",
             filename |-> Or(Get(d, "filename"), Get(d, "file")),
             lines |-> Or(Get(d, "line"), EmptyStr)]

PrimaryLocation(d) ==
    LET elements == Or(Or(Or(Get(d, "elements"),
                             GetOr(d, "elements", List(<<>>))),
                          Get(d, "locations")),
                       List(<<>>))
    IN IF Truthy(elements) /\ elements.t = "list" /\ Len(elements.v) > 0
       THEN LET chosen == ScanElements(elements.v)
            IN IF chosen = Raise THEN Raise
               ELSE IF chosen.t = "none"
                    THEN extract_location(elements.v[1])
               ELSE chosen
       ELSE [t |-> "ok",
             filename |-> Or(Get(d, "filename"), Get(d, "file")),
             lines |-> Or(Get(d, "line"), EmptyStr)]

\* description.strip().splitlines()[0] if description else ""
ShortDescription(description) ==
    IF ~Truthy(description) THEN EmptyStr
    ELSE LET ls == SplitLines(Strip(description.v))
         IN IF ls = <<>> THEN Raise     \* IndexError
            ELSE Str(ls[1])

\* Lines 124-163 for one detector d of report fname: the row appended to
\* table_rows, or Raise.
summarise_finding(fname, d) ==
    LET check == normalize_check_name(
                     Or(Or(Or(Or(Get(d, "check"), Get(d, "name")),
                              Get(d, "title")), Get(d, "detector")), Unknown))
        severity == Or(Or(Get(d, "severity"), Get(d, "impact")), Unknown)
        description == Or(Or(Or(Get(d, "description"), Get(d, "info")),
                             Get(d, "message")), EmptyStr)
        loc == PrimaryLocation(d)
        short_desc == ShortDescription(description)
    IN IF loc = Raise \/ short_desc = Raise THEN Raise
       ELSE [check |-> check,
            severity |-> severity,
            file |-> Or(loc.filename, Str(fname)),
            lines |-> Or(loc.lines, EmptyStr),
            short |-> short_desc,
            recommendation |-> recommend_for(check)]

CounterIncOverwrite(c, k) ==
    IF \E i \in 1..Len(c) : c[i].k = k
    THEN [i \in 1..Len(c) |->
             IF c[i].k = k THEN [k |-> k, n |-> 1] ELSE c[i]]
    ELSE Append(c, [k |-> k, n |-> 1])

\* Counter: c[k] += 1, keys kept in insertion order
CounterInc(c, k) ==
    IF \E i \in 1..Len(c) : c[i].k = k
    THEN [i \in 1..Len(c) |->
             IF c[i].k = k THEN [k |-> k, n |-> c[i].n + 1] ELSE c[i]]
    ELSE Append(c, [k |-> k, n |-> 1])

\* defaultdict(list): m[k].append(x)
GroupAppend(m, k, x) ==
    IF \E i \in 1..Len(m) : m[i].k = k
    THEN [i \in 1..Len(m) |->
             IF m[i].k = k THEN [k |-> k, v |-> Append(m[i].v, x)] ELSE m[i]]
    ELSE Append(m, [k |-> k, v |-> <<x>>])

-----------------------------------------------------------------------------
(* aggregate_slither.py: write_markdown                                    *)

TopChecks == 30

\* severity_order.get(r["severity"], 5)
SeverityRankUnknownLast(severity) ==
    IF severity.t # "str" THEN 4
    ELSE CASE severity.v \in {<<"H","i","g","h">>,
                              <<"C","r","i","t","i","c","a","l">>} -> 0
           [] severity.v = <<"M","e","d","i","u","m">> -> 1
           [] severity.v = <<"L","o","w">> -> 2
           [] severity.v = <<"I","n","f","o","r","m","a","t","i","o","n","a",
                             "l">> -> 3
           [] OTHER -> 4

severity_order(severity) ==
    IF severity.t # "str" THEN 5
    ELSE CASE severity.v \in {<<"H","i","g","h">>,
                              <<"C","r","i","t","i","c","a","l">>} -> 0
           [] severity.v = <<"M","e","d","i","u","m">> -> 1
           [] severity.v = <<"L","o","w">> -> 2
           [] severity.v = <<"I","n","f","o","r","m","a","t","i","o","n","a",
                             "l">> -> 3
           [] severity.v \in {<<"U","n","k","n","o","w","n">>,
                              <<"u","n","k","n","o","w","n">>} -> 4
           [] OTHER -> 5

\* sev_key(a) < sev_key(b)
SevKeyLess(a, b) ==
    \/ severity_order(a.severity) < severity_order(b.severity)
    \/ /\ severity_order(a.severity) = severity_order(b.severity)
       /\ StrLess(Lower(a.check.v), Lower(b.check.v))

\* sorted(rows, key=sev_key): stable
RECURSIVE SortRows(_)
SortRows(rows) ==
    IF rows = <<>> THEN <<>>
    ELSE LET done == SortRows(SubSeq(rows, 1, Len(rows) - 1))
             r == rows[Len(rows)]
             \* r goes after every row whose key is not greater than its own
             n == Cardinality({i \in 1..Len(done) : ~SevKeyLess(r, done[i])})
         IN SubSeq(done, 1, n) \o <<r>> \o SubSeq(done, n + 1, Len(done))

\* Counter.most_common(): by count descending, ties in insertion order
RECURSIVE MostCommon(_)
MostCommon(c) ==
    IF c = <<>> THEN <<>>
    ELSE LET done == MostCommon(SubSeq(c, 1, Len(c) - 1))
             x == c[Len(c)]
             n == Cardinality({i \in 1..Len(done) : done[i].n >= x.n})
         IN SubSeq(done, 1, n) \o <<x>> \o SubSeq(done, n + 1, Len(done))

FirstN(s, n) == SubSeq(s, 1, IF Len(s) < n THEN Len(s) ELSE n)

\* One line of the table (lines 199-204), as its cells.
RenderRow(i, r) ==
    [index |-> i,
     check |-> PyStr(r.check),
     severity |-> PyStr(r.severity),
     file |-> IF Truthy(r.file) THEN PyStr(r.file) ELSE <<>>,
     lines |-> PyStr(r.lines),
     short |-> EscapePipe(r.short.v),
     rec |-> r.recommendation]

\* The document of write_markdown, as its parts in order.
write_markdown(total_, by_check_, by_severity_, per_file_, table_rows_) ==
    LET table_rows_sorted == SortRows(table_rows_)
    IN [total |-> total_,
        severities |-> MostCommon(by_severity_),
        checks |-> FirstN(MostCommon(by_check_), TopChecks),
        table |-> [i \in 1..Len(table_rows_sorted) |->
                      RenderRow(i, table_rows_sorted[i])],
        per_file |-> [i \in 1..Len(per_file_) |->
                         [name |-> per_file_[i].k,
                          count |-> Len(per_file_[i].v)]]]

-----------------------------------------------------------------------------
(* slither_fail_on_high.py: the test of lines 33-36                        *)

High == <<"h","i","g","h">>

GateHitCaseSensitive(x) ==
    LET sev == Strip(Or(Or(Get(x, "severity"), Get(x, "impact")),
                        EmptyStr).v)
        conf_raw == Or(Or(Or(Get(x, "confidence"), Get(x, "confidence_level")),
                          Get(x, "confidenceString")), EmptyStr)
        conf == Strip(PyStr(conf_raw))
    IN sev = High /\ conf = High

GateHit(x) ==
    LET sev == Lower(Strip(Or(Or(Get(x, "severity"), Get(x, "impact")),
                              EmptyStr).v))
        conf_raw == Or(Or(Or(Get(x, "confidence"), Get(x, "confidence_level")),
                          Get(x, "confidenceString")), EmptyStr)
        conf == Lower(Strip(PyStr(conf_raw)))
    IN sev = High /\ conf = High

\* x.get("check") or x.get("name") or x.get("title") or "unknown"
GateCheckName(x) ==
    Or(Or(Or(Get(x, "check"), Get(x, "name")), Get(x, "title")), Unknown)

-----------------------------------------------------------------------------
(* The report directory.                                                   *)

DotJson == <<".","j","s","o","n">>

\* sorted(glob("*.json")): the i-th name
FileName(i) == <<LowerLetters[i]>> \o DotJson

SeqsUpTo(S, n) == UNION {[1..k -> S] : k \in 0..n}

DocResults(fs) ==
    [NoDocument EXCEPT
        !.results = Dict([NoResults EXCEPT !.detectors = List(fs)])]
DocTop(fs) == [NoDocument EXCEPT !.detectors = List(fs)]
Printer(fs) == [additional_fields |-> Dict([detectors |-> List(fs)])]
DocPrinters(ps) ==
    [NoDocument EXCEPT
        !.results = Dict([NoResults EXCEPT !.printers = List(ps)])]

Finding(check, severity) ==
    [NoFinding EXCEPT !.check = check, !.severity = severity]

-----------------------------------------------------------------------------
(* The reports the tools are run on.                                       *)

GateFinding(sev, imp, conf, lvl, cstr) ==
    [NoFinding EXCEPT !.severity = sev, !.impact = imp, !.confidence = conf,
                      !.confidence_level = lvl, !.confidenceString = cstr]

HitPlain == GateFinding(Str(<<"H","i","g","h">>), Absent,
                        Str(<<"H","i","g","h">>), Absent, Absent)
HitPadded == GateFinding(Str(<<"H","I","G","H"," ">>), Absent,
                         Absent, Str(<<"h","i","g","h">>), Absent)
HitAliases == [GateFinding(Absent, Str(<<" ","h","i","g","h">>),
                           Absent, Absent, Str(<<"h","I","g","H","\n">>))
                  EXCEPT !.name = Str(<<"r","e","e","n","t">>)]
HitFallThrough == GateFinding(EmptyStr, Str(<<"H","i","g","h">>),
                              EmptyStr, Null, Str(<<"H","i","g","h">>))
MissConfidence == GateFinding(Str(<<"h","i","g","h">>), Absent,
                              Str(<<"M","e","d","i","u","m">>), Absent, Absent)
MissSeverity == GateFinding(Str(<<"L","o","w">>), Absent,
                            Str(<<"h","i","g","h">>), Absent, Absent)
MissBlankSeverity == GateFinding(Str(<<" ">>), Str(<<"h","i","g","h">>),
                                 Str(<<"h","i","g","h">>), Absent, Absent)
MissSeverityFirst == GateFinding(Str(<<"M","e","d","i","u","m">>),
                                 Str(<<"H","i","g","h">>),
                                 Str(<<"h","i","g","h">>), Absent, Absent)
MissConfidenceFirst == GateFinding(Str(<<"h","i","g","h">>), Absent,
                                   Str(<<"l","o","w">>),
                                   Str(<<"h","i","g","h">>), Absent)
MissLonger == GateFinding(Str(<<"h","i","g","h","e","r">>), Absent,
                          Str(<<"h","i","g","h">>), Absent, Absent)

GateFindings ==
    {HitPlain, HitPadded, HitAliases, HitFallThrough, MissConfidence,
     MissSeverity, MissBlankSeverity, MissSeverityFirst, MissConfidenceFirst,
     MissLonger, NoFinding}

GateDocuments ==
    {DocResults(<<f>>) : f \in GateFindings}
    \cup {NoDocument,
          DocResults(<<>>),
          DocTop(<<HitPlain>>),
          DocPrinters(<<Printer(<<HitPadded>>)>>),
          DocPrinters(<<Printer(<<HitPlain>>), Printer(<<MissSeverity>>)>>),
          DocResults(<<MissSeverity, HitAliases, MissConfidence>>),
          [DocResults(<<MissConfidence>>) EXCEPT
              !.detectors = List(<<HitPlain>>)]}

Chk == Str(<<"c","h","k">>)
LowerA == Str(<<"a">>)
LowerB == Str(<<"b">>)
UpperB == Str(<<"B">>)
SevHigh == Str(<<"H","i","g","h">>)
SevCritical == Str(<<"C","r","i","t","i","c","a","l">>)
SevMedium == Str(<<"M","e","d","i","u","m">>)
SevLow == Str(<<"L","o","w">>)
SevInformational ==
    Str(<<"I","n","f","o","r","m","a","t","i","o","n","a","l">>)
SevOptimization == Str(<<"O","p","t","i","m","i","z","a","t","i","o","n">>)
SevUnknownCap == Str(<<"U","n","k","n","o","w","n">>)

ASol == Str(<<"A",".","s","o","l">>)
BSol == Str(<<"B",".","s","o","l">>)
CSol == Str(<<"C",".","s","o","l">>)
XSol == Str(<<"X",".","s","o","l">>)
YSol == Str(<<"Y",".","s","o","l">>)

\* elements: [{"line": 5}, {"filename": "A.sol", "start_line": 10, "end_line": 12}]
LocatedFinding ==
    [Finding(Str(<<"P","r","a","g","m","a","-","x">>), SevLow) EXCEPT
        !.elements = List(<<[NoElement EXCEPT !.line = Num(5)],
                            [NoElement EXCEPT !.filename = ASol,
                                              !.start_line = Num(10),
                                              !.end_line = Num(12)]>>),
        !.description = Str(<<"a","|","b","\n","c">>)]

\* description: " " (blank)
BlankDescriptionFinding ==
    [Finding(LowerA, SevMedium) EXCEPT !.description = Str(<<" ">>)]

\* elements: [{"source_mapping": null}]
NullMappingFinding ==
    [Finding(LowerA, SevHigh) EXCEPT
        !.elements = List(<<[NoElement EXCEPT !.source_mapping = Null]>>)]

SummaryDocuments ==
    {DocResults(<<f>>) :
        f \in {Finding(UpperB, SevCritical), Finding(LowerA, SevHigh),
               Finding(LowerA, SevInformational),
               Finding(LowerA, SevOptimization),
               Finding(LowerA, SevUnknownCap),
               Finding(LowerB, Absent), NoFinding, LocatedFinding,
               BlankDescriptionFinding, NullMappingFinding}}
    \cup {NoDocument,
          DocResults(<<>>),
          DocResults(<<Finding(Chk, SevLow), Finding(Chk, SevHigh),
                       Finding(Chk, SevMedium), Finding(Chk, Absent)>>),
          DocTop(<<Finding(UpperB, SevLow)>>),
          DocPrinters(<<Printer(<<>>),
                        Printer(<<Finding(LowerB, SevMedium)>>)>>)}

-----------------------------------------------------------------------------
(* slither_fail_on_high.py: the module-level program                       *)

Line(kind, what) == [kind |-> kind, what |-> what]

\* Lines 19-21: no reports/json directory
GateNoDirectory ==
    /\ pc = "gate_start"
    /\ ~dirExists
    /\ stdout' = Append(stdout, Line("no-directory", EmptyStr))
    /\ exitCode' = Num(0)
    /\ pc' = "exited"
    /\ UNCHANGED <<dirExists, read, fail>>
    /\ UNCHANGED sumVars
    /\ UNCHANGED fnVars

\* Lines 19, 23: the directory exists; fail = False
GateBegin ==
    /\ pc = "gate_start"
    /\ dirExists
    /\ fail' = FALSE
    /\ pc' = "gate_loop"
    /\ UNCHANGED <<dirExists, read, stdout, exitCode>>
    /\ UNCHANGED sumVars
    /\ UNCHANGED fnVars

GateSkipFileFails ==
    /\ pc = "gate_loop"
    /\ Len(read) < MaxFiles
    /\ LET p == FileName(Len(read) + 1)
       IN /\ read' = Append(read, [name |-> p, ok |-> FALSE,
                                   doc |-> NoDocument])
          /\ stdout' = Append(stdout, Line("warning", Str(p)))
    /\ fail' = TRUE
    /\ UNCHANGED <<pc, dirExists, exitCode>>
    /\ UNCHANGED sumVars
    /\ UNCHANGED fnVars

\* Lines 24-30: the next file cannot be opened or parsed
GateSkipFile ==
    /\ pc = "gate_loop"
    /\ Len(read) < MaxFiles
    /\ LET p == FileName(Len(read) + 1)
       IN /\ read' = Append(read, [name |-> p, ok |-> FALSE,
                                   doc |-> NoDocument])
          /\ stdout' = Append(stdout, Line("warning", Str(p)))
    /\ UNCHANGED <<pc, dirExists, fail, exitCode>>
    /\ UNCHANGED sumVars
    /\ UNCHANGED fnVars

\* Lines 32-38 over dets: the hits printed, in order
RECURSIVE GateHits(_)
GateHits(dets) ==
    IF dets = <<>> THEN <<>>
    ELSE (IF GateHit(Head(dets))
          THEN <<Line("hit", GateCheckName(Head(dets)))>> ELSE <<>>)
         \o GateHits(Tail(dets))

\* Lines 24-27, 31-38: the next file parses and is scanned
GateScanFile ==
    /\ pc = "gate_loop"
    /\ Len(read) < MaxFiles
    /\ \E d \in GateDocuments :
          LET p == FileName(Len(read) + 1)
              hits == GateHits(extract_detectors(d))
          IN /\ read' = Append(read, [name |-> p, ok |-> TRUE, doc |-> d])
             /\ stdout' = stdout \o hits
             /\ fail' = (fail \/ hits # <<>>)
    /\ UNCHANGED <<pc, dirExists, exitCode>>
    /\ UNCHANGED sumVars
    /\ UNCHANGED fnVars

\* Lines 40-45: the glob is exhausted
GateExit ==
    /\ pc = "gate_loop"
    /\ stdout' = Append(stdout, Line(IF fail THEN "failing" ELSE "clean",
                                     EmptyStr))
    /\ exitCode' = IF fail THEN Num(1) ELSE Num(0)
    /\ pc' = "exited"
    /\ UNCHANGED <<dirExists, read, fail>>
    /\ UNCHANGED sumVars
    /\ UNCHANGED fnVars

-----------------------------------------------------------------------------
(* aggregate_slither.py: load_json_files and main                          *)

\* Lines 41-44: the next file parses; (p.name, json.load(f)) is yielded
LoadFile ==
    /\ pc = "load"
    /\ Len(read) < MaxFiles
    /\ \E d \in SummaryDocuments :
          LET p == FileName(Len(read) + 1)
          IN /\ read' = Append(read, [name |-> p, ok |-> TRUE, doc |-> d])
             /\ files' = Append(files, [name |-> p, data |-> d])
    /\ UNCHANGED <<pc, stdout, fi, di, total, by_check, by_severity, per_file,
                   table_rows, out_md>>
    /\ UNCHANGED gateVars
    /\ UNCHANGED fnVars

\* Lines 41-46: the next file cannot be opened or parsed
LoadSkipFile ==
    /\ pc = "load"
    /\ Len(read) < MaxFiles
    /\ LET p == FileName(Len(read) + 1)
       IN /\ read' = Append(read, [name |-> p, ok |-> FALSE,
                                   doc |-> NoDocument])
          /\ stdout' = Append(stdout, Line("skipping", Str(p)))
    /\ UNCHANGED sumVars
    /\ UNCHANGED <<pc>>
    /\ UNCHANGED gateVars
    /\ UNCHANGED fnVars

\* Lines 215-219: the generator is exhausted and yielded nothing
MainNoFiles ==
    /\ pc = "load"
    /\ files = <<>>
    /\ stdout' = Append(stdout, Line("no-json-files", EmptyStr))
    /\ pc' = "returned"
    /\ UNCHANGED read
    /\ UNCHANGED sumVars
    /\ UNCHANGED gateVars
    /\ UNCHANGED fnVars

\* Lines 215-220, 113-117: summarise_and_build_table(files) is entered
MainSummarise ==
    /\ pc = "load"
    /\ files # <<>>
    /\ pc' = "summarise"
    /\ fi' = 1
    /\ di' = 1
    /\ total' = 0
    /\ by_check' = <<>>
    /\ by_severity' = <<>>
    /\ per_file' = <<>>
    /\ table_rows' = <<>>
    /\ UNCHANGED <<read, stdout, files, out_md>>
    /\ UNCHANGED gateVars
    /\ UNCHANGED fnVars

-----------------------------------------------------------------------------
(* aggregate_slither.py: summarise_and_build_table and write_markdown      *)

\* Lines 121-163: one pass of `for d in detectors`
SummariseFinding ==
    /\ pc = "summarise"
    /\ fi <= Len(files)
    /\ di <= Len(find_detectors(files[fi].data))
    /\ LET fname == files[fi].name
           d == find_detectors(files[fi].data)[di]
           row == summarise_finding(fname, d)
       IN /\ total' = total + 1
          /\ IF row = Raise
             THEN /\ pc' = "raised"
                  /\ UNCHANGED <<di, by_check, by_severity, per_file,
                                 table_rows>>
             ELSE /\ by_check' = CounterInc(by_check, row.check)
                  /\ by_severity' = CounterInc(by_severity, row.severity)
                  /\ per_file' = GroupAppend(per_file, Str(fname), d)
                  /\ table_rows' = Append(table_rows, row)
                  /\ di' = di + 1
                  /\ UNCHANGED pc
    /\ UNCHANGED <<read, stdout, files, fi, out_md>>
    /\ UNCHANGED gateVars
    /\ UNCHANGED fnVars

\* Lines 119-121: `for fname, data in all_files` moves to the next file
SummariseNextFile ==
    /\ pc = "summarise"
    /\ fi <= Len(files)
    /\ di > Len(find_detectors(files[fi].data))
    /\ fi' = fi + 1
    /\ di' = 1
    /\ UNCHANGED <<pc, read, stdout, files, total, by_check, by_severity,
                   per_file, table_rows, out_md>>
    /\ UNCHANGED gateVars
    /\ UNCHANGED fnVars

\* Lines 165, 221: the aggregates are returned and the document is written
WriteSummary ==
    /\ pc = "summarise"
    /\ fi > Len(files)
    /\ out_md' = write_markdown(total, by_check, by_severity, per_file,
                                table_rows)
    /\ stdout' = Append(stdout, Line("wrote", EmptyStr))
    /\ pc' = "done"
    /\ UNCHANGED <<read, files, fi, di, total, by_check, by_severity,
                   per_file, table_rows>>
    /\ UNCHANGED gateVars
    /\ UNCHANGED fnVars

-----------------------------------------------------------------------------
(* The two tools, each run once on a report directory.                     *)

Idle ==
    /\ read = <<>>
    /\ fail = FALSE
    /\ stdout = <<>>
    /\ exitCode = Null
    /\ files = <<>>
    /\ fi = 1
    /\ di = 1
    /\ total = 0
    /\ by_check = <<>>
    /\ by_severity = <<>>
    /\ per_file = <<>>
    /\ table_rows = <<>>
    /\ out_md = Null

Init ==
    /\ Idle
    /\ \/ pc = "gate_start" /\ dirExists \in BOOLEAN
       \/ pc = "load" /\ dirExists = TRUE
    /\ arg = Null
    /\ ret = Null

Next ==
    \/ GateNoDirectory
    \/ GateBegin
    \/ GateSkipFile
    \/ GateScanFile
    \/ GateExit
    \/ LoadFile
    \/ LoadSkipFile
    \/ MainNoFiles
    \/ MainSummarise
    \/ SummariseFinding
    \/ SummariseNextFile
    \/ WriteSummary

Spec == Init /\ [][Next]_vars

-----------------------------------------------------------------------------
(* find_detectors and extract_detectors applied to one document.           *)

FA == Finding(Str(<<"f","a">>), SevHigh)
FC == Finding(Str(<<"f","c">>), SevLow)
FD == Finding(Str(<<"f","d">>), SevLow)
FE == Finding(Str(<<"f","e">>), SevMedium)

PrinterEntries ==
    {NoPrinter,
     [additional_fields |-> Null],
     [additional_fields |-> Dict(NoAdditionalFields)],
     Printer(<<>>), Printer(<<FC>>), Printer(<<FD>>)}

ShapeDocuments ==
    {[results |-> r, detectors |-> top] :
        r \in {Absent, Null}
              \cup {Dict([detectors |-> det, printers |-> prs]) :
                       det \in {Absent, List(<<>>), List(<<FA>>)},
                       prs \in {Absent, Null}
                               \cup {List(ps) :
                                       ps \in SeqsUpTo(PrinterEntries,
                                                       MaxPrinters)}},
        top \in {Absent, List(<<>>), List(<<FE>>)}}

InitDetectors ==
    /\ Idle
    /\ dirExists = TRUE
    /\ pc = "call"
    /\ arg \in ShapeDocuments
    /\ ret = [find |-> Null, extract |-> Null]

CallFindDetectors ==
    /\ pc = "call"
    /\ ret.find = Null
    /\ ret' = [ret EXCEPT !.find = List(find_detectors(arg))]
    /\ UNCHANGED <<pc, read, stdout, arg>>
    /\ UNCHANGED gateVars
    /\ UNCHANGED sumVars

CallExtractDetectors ==
    /\ pc = "call"
    /\ ret.extract = Null
    /\ ret' = [ret EXCEPT !.extract = List(extract_detectors(arg))]
    /\ UNCHANGED <<pc, read, stdout, arg>>
    /\ UNCHANGED gateVars
    /\ UNCHANGED sumVars

NextDetectors == CallFindDetectors \/ CallExtractDetectors

SpecDetectors == InitDetectors /\ [][NextDetectors]_vars

-----------------------------------------------------------------------------
(* extract_location applied to one element.                                *)

LocationElements ==
    {[filename |-> f, path |-> p, source_mapping |-> sm, line |-> l,
      start_line |-> s, end_line |-> e, lines |-> ls] :
        f \in {Absent, Null, EmptyStr, ASol},
        p \in {Absent, BSol},
        sm \in {Absent, Null, Dict(NoSourceMapping),
                Dict([NoSourceMapping EXCEPT !.filename = CSol]),
                Dict([NoSourceMapping EXCEPT !.start_line = Num(1),
                                             !.end_line = Num(2)]),
                Dict([filename |-> Null, start_line |-> Num(1),
                      end_line |-> Num(2)]),
                Dict([NoSourceMapping EXCEPT !.start_line = Num(1)])},
        l \in {Absent, Null, Num(5)},
        s \in {Absent, Num(10)},
        e \in {Absent, Num(12)},
        ls \in {Absent, List(<<>>), List(<<Num(3), Num(4), Num(5)>>),
                Str(<<"7">>)}}

InitLocation ==
    /\ Idle
    /\ dirExists = TRUE
    /\ pc = "call"
    /\ arg \in LocationElements
    /\ ret = Null

CallExtractLocation ==
    /\ pc = "call"
    /\ ret' = extract_location(arg)
    /\ pc' = "returned"
    /\ UNCHANGED <<read, stdout, arg>>
    /\ UNCHANGED gateVars
    /\ UNCHANGED sumVars

NextLocation == CallExtractLocation

SpecLocation == InitLocation /\ [][NextLocation]_vars

-----------------------------------------------------------------------------
(* summarise_and_build_table and write_markdown on one report holding one  *)
(* finding.                                                                *)

ElementChoices ==
    {NoElement,
     [NoElement EXCEPT !.line = Num(5)],
     [NoElement EXCEPT !.filename = ASol, !.start_line = Num(10),
                       !.end_line = Num(12)],
     [NoElement EXCEPT !.path = BSol,
                       !.lines = List(<<Num(3), Num(4), Num(5)>>)],
     [NoElement EXCEPT !.source_mapping = Null],
     [NoElement EXCEPT !.source_mapping =
          Dict([filename |-> CSol, start_line |-> Num(1),
                end_line |-> Num(2)])]}

NormalizeFindings ==
    {[NoFinding EXCEPT !.check = names[1], !.detector = names[2],
                       !.severity = sev[1], !.impact = sev[2],
                       !.description = desc,
                       !.elements = els, !.locations = locs,
                       !.filename = direct[1], !.file = direct[2],
                       !.line = direct[3]] :
        names \in {<<Absent, Absent>>,
                   <<Str(<<"D","e","f","a","u","l","t","s">>), Absent>>,
                   <<Null, Str(<<" ","P","r","a","g","m","a"," ">>)>>},
        sev \in {<<Absent, Absent>>, <<SevHigh, Absent>>,
                 <<EmptyStr, SevLow>>},
        desc \in {Absent, Str(<<" ">>), Str(<<"a","|","b","\n","c">>)},
        els \in {Absent, Null, List(<<>>)}
                \cup {List(es) : es \in SeqsUpTo(ElementChoices, MaxElements)},
        locs \in {Absent,
                  List(<<[NoElement EXCEPT !.filename = YSol,
                                           !.line = Num(7)]>>)},
        direct \in {<<Absent, Absent, Absent>>,
                    <<XSol, Absent, Absent>>,
                    <<Null, YSol, Absent>>,
                    <<XSol, YSol, Num(9)>>}}

InitNormalize ==
    /\ pc = "summarise"
    /\ dirExists = TRUE
    /\ fail = FALSE
    /\ exitCode = Null
    /\ stdout = <<>>
    /\ \E d \in NormalizeFindings :
          /\ read = <<[name |-> FileName(1), ok |-> TRUE,
                       doc |-> DocResults(<<d>>)]>>
          /\ files = <<[name |-> FileName(1), data |-> DocResults(<<d>>)]>>
    /\ fi = 1
    /\ di = 1
    /\ total = 0
    /\ by_check = <<>>
    /\ by_severity = <<>>
    /\ per_file = <<>>
    /\ table_rows = <<>>
    /\ out_md = Null
    /\ arg = Null
    /\ ret = Null

NextNormalize == SummariseFinding \/ SummariseNextFile \/ WriteSummary

SpecNormalize == InitNormalize /\ [][NextNormalize]_vars

-----------------------------------------------------------------------------
(* Properties.                                                             *)

\* The first non-empty value among the keys ks of x, as text ("" if none).
FirstNonEmpty(x, ks) ==
    LET has == {i \in 1..Len(ks) : Truthy(x[ks[i]])}
    IN IF has = {} THEN <<>> ELSE PyStr(x[ks[SetMin(has)]])

\* A finding the gate must fail on: severity and confidence both "high"
\* once trimmed and lower-cased.
QualifiesHighHigh(x) ==
    /\ Lower(Strip(FirstNonEmpty(x, <<"severity", "impact">>))) = High
    /\ Lower(Strip(FirstNonEmpty(x, <<"confidence", "confidence_level",
                                      "confidenceString">>))) = High

\* C1: once the gate has run over an existing reports/json, it exits 1
\* exactly when some finding it extracted from a parsed file has severity
\* high and confidence high (trimmed, any letter case), and exits 0 otherwise.
C1_GateExitCode ==
    (pc = "exited" /\ dirExists) =>
        /\ exitCode \in {Num(0), Num(1)}
        /\ exitCode = Num(1) <=>
              \E i \in 1..Len(read) :
                 /\ read[i].ok
                 /\ \E j \in 1..Len(extract_detectors(read[i].doc)) :
                       QualifiesHighHigh(extract_detectors(read[i].doc)[j])

\* The gate failed on a finding that names severity and confidence through
\* their aliases in mixed case with padding, read before a file without one.
C1_Witness ==
    /\ pc = "exited"
    /\ exitCode = Num(1)
    /\ Len(read) = 2
    /\ read[1].doc = DocResults(<<HitAliases>>)
    /\ read[2].doc = DocResults(<<MissSeverity>>)

-----------------------------------------------------------------------------

ResultsOf(doc) == IF doc.results.t = "dict" THEN doc.results.v ELSE NoResults
ListOf(v) == IF v.t = "list" THEN v.v ELSE <<>>
AdditionalOf(pr) ==
    IF pr.additional_fields.t = "dict" THEN pr.additional_fields.v
    ELSE NoAdditionalFields

\* The three places a document may keep its findings.
InResults(doc) == ListOf(ResultsOf(doc).detectors)
InPrinters(doc) ==
    [i \in 1..Len(ListOf(ResultsOf(doc).printers)) |->
        ListOf(AdditionalOf(ListOf(ResultsOf(doc).printers)[i]).detectors)]
InTopLevel(doc) == ListOf(doc.detectors)

FirstNonEmptySource(doc) ==
    LET full == {i \in 1..Len(InPrinters(doc)) : InPrinters(doc)[i] # <<>>}
    IN IF InResults(doc) # <<>> THEN InResults(doc)
       ELSE IF full # {} THEN InPrinters(doc)[SetMin(full)]
       ELSE IF InTopLevel(doc) # <<>> THEN InTopLevel(doc)
       ELSE <<>>

\* C2: find_detectors returns the first non-empty of results.detectors, the
\* detectors of the first printer that has some, the top-level detectors,
\* and the empty list.
C2_FindDetectorsOrder ==
    (pc = "call" /\ ret.find # Null) =>
        ret.find = List(FirstNonEmptySource(arg))

\* find_detectors passed over an empty results.detectors and an empty first
\* printer and returned the second printer's findings, not the top-level ones.
C2_Witness ==
    /\ pc = "call"
    /\ ret.find # Null
    /\ InResults(arg) = <<>>
    /\ Len(InPrinters(arg)) = 2
    /\ InPrinters(arg)[1] = <<>>
    /\ InPrinters(arg)[2] # <<>>
    /\ InTopLevel(arg) # <<>>
    /\ ret.find = List(InPrinters(arg)[2])

\* C3: the gate's extract_detectors returns, for every document, the list
\* the summary's find_detectors returns.
C3_SameDetectors ==
    (pc = "call" /\ ret.find # Null /\ ret.extract # Null) =>
        ret.extract = ret.find

-----------------------------------------------------------------------------

RankOthersWithUnknown(sev) ==
    CASE sev \in {<<"H","i","g","h">>, <<"C","r","i","t","i","c","a","l">>} -> 0
      [] sev = <<"M","e","d","i","u","m">> -> 1
      [] sev = <<"L","o","w">> -> 2
      [] sev = <<"I","n","f","o","r","m","a","t","i","o","n","a","l">> -> 3
      [] OTHER -> 4

RankOthersLast(sev) ==
    CASE sev \in {<<"H","i","g","h">>, <<"C","r","i","t","i","c","a","l">>} -> 0
      [] sev = <<"M","e","d","i","u","m">> -> 1
      [] sev = <<"L","o","w">> -> 2
      [] sev = <<"I","n","f","o","r","m","a","t","i","o","n","a","l">> -> 3
      [] sev \in {<<"U","n","k","n","o","w","n">>,
                  <<"u","n","k","n","o","w","n">>} -> 4
      [] OTHER -> 5

\* A line of rank ra and check name ca may stand before one of rank rb and
\* check name cb.
InOrder(ra, ca, rb, cb) ==
    \/ ra < rb
    \/ /\ ra = rb
       /\ ~StrLess(Lower(cb), Lower(ca))

\* The table holds the rows of table_rows, each as often, numbered from 1.
TableIsTheRows ==
    /\ Len(out_md.table) = Len(table_rows)
    /\ \A i \in 1..Len(out_md.table) :
          /\ out_md.table[i].index = i
          /\ Cardinality({j \in 1..Len(table_rows) :
                             RenderRow(i, table_rows[j]) = out_md.table[i]})
             = Cardinality({j \in 1..Len(out_md.table) :
                               [out_md.table[j] EXCEPT !.index = i]
                                   = out_md.table[i]})

SeveritiesOf(rows) == [i \in 1..Len(rows) |-> rows[i].severity]

\* The rows Low, High, Medium, unknown with one check name come out as
\* High, Medium, Low, unknown.
FourSeveritiesExample ==
    (/\ SeveritiesOf(table_rows) = <<SevLow, SevHigh, SevMedium, Unknown>>
     /\ \A i \in 1..Len(table_rows) : table_rows[i].check = table_rows[1].check)
    => SeveritiesOf(out_md.table)
          = <<SevHigh.v, SevMedium.v, SevLow.v, Unknown.v>>

\* C4 as stated: the table is ordered by severity rank with every severity
\* outside High, Critical, Medium, Low, Informational at rank 4, then by
\* check name ignoring case; indices are assigned after sorting.
C4_OthersRankFour ==
    (pc = "done") =>
        /\ TableIsTheRows
        /\ FourSeveritiesExample
        /\ \A i \in 1..(Len(out_md.table) - 1) :
              InOrder(RankOthersWithUnknown(out_md.table[i].severity),
                      out_md.table[i].check,
                      RankOthersWithUnknown(out_md.table[i + 1].severity),
                      out_md.table[i + 1].check)

\* C4 (amended): the table is ordered by severity rank - High and Critical
\* 0, Medium 1, Low 2, Informational 3, "Unknown" and "unknown" 4, every
\* other value 5 - then by check name ignoring case; indices are assigned
\* after sorting.
C4_OthersRankFive ==
    (pc = "done") =>
        /\ TableIsTheRows
        /\ FourSeveritiesExample
        /\ \A i \in 1..(Len(out_md.table) - 1) :
              InOrder(RankOthersLast(out_md.table[i].severity),
                      out_md.table[i].check,
                      RankOthersLast(out_md.table[i + 1].severity),
                      out_md.table[i + 1].check)

\* A row of severity "Optimization" was written after an "unknown" row whose
\* check name sorts later.
C4_Witness ==
    /\ pc = "done"
    /\ \E i \in 1..(Len(out_md.table) - 1) :
          /\ out_md.table[i].severity = Unknown.v
          /\ out_md.table[i + 1].severity = SevOptimization.v
          /\ StrLess(Lower(out_md.table[i + 1].check),
                     Lower(out_md.table[i].check))

-----------------------------------------------------------------------------

RECURSIVE SumOf(_)
SumOf(ns) == IF ns = <<>> THEN 0 ELSE Head(ns) + SumOf(Tail(ns))

DetectorCounts == [i \in 1..Len(files) |-> Len(find_detectors(files[i].data))]

\* C5: when summarise_and_build_table has returned, total is the sum of the
\* files' detector counts, the number of rows, the sum of by_check, the sum
\* of by_severity and the sum of the per-file list lengths; per_file has a
\* key for exactly the files that contributed a finding.
C5_Totals ==
    (pc = "done") =>
        /\ total = SumOf(DetectorCounts)
        /\ total = Len(table_rows)
        /\ total = Len(out_md.table)
        /\ total = out_md.total
        /\ total = SumOf([i \in 1..Len(by_check) |-> by_check[i].n])
        /\ total = SumOf([i \in 1..Len(by_severity) |-> by_severity[i].n])
        /\ total = SumOf([i \in 1..Len(per_file) |-> Len(per_file[i].v)])
        /\ {per_file[i].k : i \in 1..Len(per_file)}
              = {Str(files[i].name) : i \in {j \in 1..Len(files) :
                                               DetectorCounts[j] > 0}}
        /\ Len(per_file) = Cardinality({per_file[i].k : i \in 1..Len(per_file)})

\* Two files with four findings and none were summarised: a total of four
\* and one per-file entry.
C5_Witness ==
    /\ pc = "done"
    /\ DetectorCounts = <<4, 0>>
    /\ total = 4
    /\ Len(per_file) = 1

-----------------------------------------------------------------------------

\* The files of `read` that parsed, as load_json_files yields them.
RECURSIVE ParsedOnly(_)
ParsedOnly(rs) ==
    IF rs = <<>> THEN <<>>
    ELSE (IF Head(rs).ok
          THEN <<[name |-> Head(rs).name, data |-> Head(rs).doc]>> ELSE <<>>)
         \o ParsedOnly(Tail(rs))

SkippedAFile ==
    /\ Len(read') = Len(read) + 1
    /\ ~read'[Len(read')].ok

\* C8: a file that cannot be read or parsed only adds a warning: the run
\* goes on where it was, with the gate's flag and the summary's file list
\* untouched; so the gate's exit code is decided by the parsed files alone
\* and the summary is built from the parsed files alone.
C8_UnparsableSkipped ==
    /\ [][SkippedAFile =>
            /\ pc' = pc
            /\ fail' = fail
            /\ exitCode' = exitCode
            /\ files' = files
            /\ Len(stdout') = Len(stdout) + 1
            /\ stdout'[Len(stdout')].kind \in {"warning", "skipping"}
            /\ stdout'[Len(stdout')].what = Str(read'[Len(read')].name)]_vars
    /\ []((pc = "exited" /\ dirExists) =>
             (exitCode = Num(1) <=>
                 \E i \in 1..Len(ParsedOnly(read)) :
                    GateHits(extract_detectors(ParsedOnly(read)[i].data))
                        # <<>>))
    /\ [](pc \in {"load", "summarise", "raised", "done", "returned"} =>
             files = ParsedOnly(read))

\* The gate skipped a first file it could not parse and exited 1 on a
\* finding of the second.
C8_Witness ==
    /\ pc = "exited"
    /\ exitCode = Num(1)
    /\ Len(read) = 2
    /\ ~read[1].ok
    /\ read[2].ok

-----------------------------------------------------------------------------

\* The one finding of the one report of a SpecNormalize run.
TheFinding == find_detectors(files[1].data)[1]

\* The elements list the row is located from: `elements`, else `locations`.
LocatedFrom(d) ==
    IF ListOf(d.elements) # <<>> THEN d.elements.v ELSE ListOf(d.locations)

HasNoLocation(e) == e = NoElement

\* check, severity and every location field are absent from d.
Featureless(d) ==
    /\ \A k \in {"check", "name", "title", "detector", "severity", "impact",
                 "filename", "file", "line"} : d[k] = Absent
    /\ \A k \in {"elements", "locations"} :
          \/ d[k] = Absent
          \/ /\ d[k].t = "list"
             /\ \A i \in 1..Len(d[k].v) : HasNoLocation(d[k].v[i])

\* C6: a finding without check, severity and location fields is summarised
\* without an error, into one table line with check "unknown", severity
\* "unknown", empty file and lines cells and the generic recommendation.
C6_FeaturelessRow ==
    (Len(files) = 1 /\ DetectorCounts = <<1>> /\ Featureless(TheFinding)) =>
        /\ pc # "raised"
        /\ (pc = "done") =>
              /\ Len(out_md.table) = 1
              /\ out_md.table[1].check = Unknown.v
              /\ out_md.table[1].severity = Unknown.v
              /\ out_md.table[1].file = <<>>
              /\ out_md.table[1].lines = <<>>
              /\ out_md.table[1].rec = "default"

\* No key of ks holds a usable value in d.
AllMissing(d, ks) == \A k \in ks : ~Truthy(d[k])

\* C7: summarising a finding never raises, whatever is missing or null in
\* it, and a field none of whose keys is usable becomes "unknown" (check,
\* severity) or the empty string (short description).
C7_NeverRaises ==
    /\ pc # "raised"
    /\ (Len(files) = 1 /\ DetectorCounts = <<1>> /\ Len(table_rows) = 1) =>
          /\ AllMissing(TheFinding, {"check", "name", "title", "detector"})
                => table_rows[1].check = Unknown
          /\ AllMissing(TheFinding, {"severity", "impact"})
                => table_rows[1].severity = Unknown
          /\ AllMissing(TheFinding, {"description", "info", "message"})
                => table_rows[1].short = EmptyStr

-----------------------------------------------------------------------------

L10to12 == Str(<<"L","1","0","-","L","1","2">>)

\* The lines string by priority: line, start_line with end_line, a lines
\* list, source_mapping's start_line with end_line, nothing.
LinesByPriority(e) ==
    IF e.line # Absent THEN Str(<<"L">> \o PyStr(e.line))
    ELSE IF e.start_line # Absent /\ e.end_line # Absent
         THEN Str(<<"L">> \o PyStr(e.start_line) \o <<"-","L">>
                  \o PyStr(e.end_line))
    ELSE IF e.lines.t = "list"
         THEN Str(Join(<<",">>,
                       [i \in 1..Len(e.lines.v) |-> PyStr(e.lines.v[i])]))
    ELSE IF /\ e.source_mapping.t = "dict"
            /\ e.source_mapping.v.start_line # Absent
            /\ e.source_mapping.v.end_line # Absent
         THEN Str(<<"L">> \o PyStr(e.source_mapping.v.start_line)
                  \o <<"-","L">> \o PyStr(e.source_mapping.v.end_line))
    ELSE EmptyStr

\* C9: what extract_location returns as lines follows the priority line,
\* start_line/end_line, lines list, source_mapping, empty; so start_line 10
\* with end_line 12 gives "L10-L12", line 5 gives "L5" and lines [3,4,5]
\* gives "3,4,5".
C9_LinesPriority ==
    (pc = "returned" /\ ret # Raise) =>
        /\ ret.lines = LinesByPriority(arg)
        /\ (arg.line = Absent /\ arg.start_line = Num(10)
               /\ arg.end_line = Num(12)) => ret.lines = L10to12
        /\ (arg.line = Num(5)) => ret.lines = Str(<<"L","5">>)
        /\ (arg.line = Absent /\ arg.start_line = Absent
               /\ arg.lines = List(<<Num(3), Num(4), Num(5)>>))
              => ret.lines = Str(<<"3",",","4",",","5">>)

\* An element with start_line 10, end_line 12, a lines list and a
\* source_mapping range, but no line, gave "L10-L12".
C9_Witness ==
    /\ pc = "returned"
    /\ arg.line = Absent
    /\ arg.start_line = Num(10)
    /\ arg.end_line = Num(12)
    /\ arg.lines = List(<<Num(3), Num(4), Num(5)>>)
    /\ arg.source_mapping.t = "dict"
    /\ arg.source_mapping.v.start_line = Num(1)
    /\ ret # Raise
    /\ ret.lines = L10to12

-----------------------------------------------------------------------------

\* The elements of es that yield a non-empty filename.
Yielding(es) ==
    {i \in 1..Len(es) :
        /\ extract_location(es[i]) # Raise
        /\ Truthy(extract_location(es[i]).filename)}

====
